---- MODULE Spec2Model ----
(***************************************************************************)
(* A model of the smart-contract analyzer:                                 *)
(*   - EventHandler.get_events, the adaptive log scan (SpecScan);          *)
(*   - async_retry, the retry decorator (SpecRetry);                       *)
(*   - the pool-resolution routines DexAnalyzer.check_dex_pools,           *)
(*     ChainDetector._check_all_dexes and                                  *)
(*     EventHandler.quick_check_contract (SpecPools).                      *)
(* The RPC provider is the environment: every call it answers is a         *)
(* nondeterministic choice between its possible results and a raise.       *)
(* A window of the scan is its block range; the logs it returns are not    *)
(* part of the state.                                                      *)
(***************************************************************************)
EXTENDS Integers, Sequences, FiniteSets, TLC

(***************************************************************************)
(* Bounds of the model.                                                    *)
(***************************************************************************)
\* Blocks are 0..MaxBlock.
MaxBlock == 3
\* The batch_size argument of get_events ranges over 1..MaxBatch.
MaxBatch == 5
\* Config.batch_size ranges over 1..MaxBatch and over the multiples
\* FLOOR_DIVISOR * (1..MaxFloor), whose shrink floors are 1..MaxFloor.
MaxFloor == 2
\* The history counters of the scan saturate here.
MaxCount == 4
\* async_retry is decorated with retries in 0..MaxRetries,
MaxRetries == 4
\* delay in 1..MaxDelay
MaxDelay == 2
\* and backoff in 1..MaxBackoff.
MaxBackoff == 3
\* A factory answers an address in 0..MaxAddr.
MaxAddr == 1
\* The mantissa of a float has MantissaBits bits.
MantissaBits == 4
\* The reserves of a pair range over 0..MaxReserve,
MaxReserve == 3
\* the decimals of a token over 0..MaxDecimals,
MaxDecimals == 2
\* and the reserves are scaled by a factor in 2..MaxScale.
MaxScale == 3
\* sqrtPriceX96 is m * 2^e with m in 1..MaxSqrtMant.
MaxSqrtMant == 3
\* The addresses of a PairCreated log are built from seeds in 1..MaxSeed,
MaxSeed == 2
\* and its data has up to MaxExtraWords words after the first.
MaxExtraWords == 2
\* The chain holds at most MaxEvents OwnershipTransferred events.
MaxEvents == 3

(***************************************************************************)
(* Program constants.                                                      *)
(***************************************************************************)
\* @async_retry(retries=3, ...) on get_events.
GET_EVENTS_RETRIES == 3
\* @async_retry(retries=3, ...) on get_ownership_transfers, get_transfers
\* and get_approvals.
WRAPPER_RETRIES == 3
\* The shrink floor is Config.batch_size // 10.
FLOOR_DIVISOR == 10
\* sqrtPriceX96 is a Q64.96 number; the raw V3 price divides by 2 ** 192.
Q96 == 96
PRICE_SHIFT == 192
\* Config.batch_size, unless the environment sets BATCH_SIZE.
BATCH_SIZE == 1000

None == -1

Min(x, y) == IF x <= y THEN x ELSE y
Max(x, y) == IF x >= y THEN x ELSE y

RECURSIVE Pow2(_)
Pow2(n) == IF n = 0 THEN 1 ELSE 2 * Pow2(n - 1)

RECURSIVE Pow10(_)
Pow10(n) == IF n = 0 THEN 1 ELSE 10 * Pow10(n - 1)

Blocks == 0 .. MaxBlock

ConfigBatchSizes ==
    (1 .. MaxBatch) \cup { FLOOR_DIVISOR * k : k \in 1 .. MaxFloor }

VARIABLES
    \* ---- EventHandler.get_events ----
    pc,                  \* "start" | "loop" | "done" | "raised" | "idle"
    attempt,             \* async_retry's loop variable around get_events
    from_block,          \* the from_block argument
    to_arg,              \* the to_block argument (None: the latest block)
    to_block,            \* the local to_block, lowered when clipped
    batch_size,          \* the batch_size argument (initial_batch_size)
    config_batch_size,   \* self.config.batch_size
    current_block,       \* the cursor
    current_batch_size,
    tip,                 \* the provider's latest block number
    tip0,                \* history: the latest block number when the call began
    covered,             \* history: block -> number of successful windows holding it
    requeried,           \* history: a getLogs call held a block already covered
    otherFails,          \* history: non-rate-limit failures since the last success
    nRL,                 \* history: rate-limit errors in a row since the batch size
                         \*   was the initial one (None: not in such a row)
    results              \* the list results as a bag: block -> number of copies
                         \*   of that block's log in the list

VARIABLES
    \* ---- async_retry(retries, delay, backoff) around an operation ----
    rpc,                 \* "loop" | "returned" | "raised" | "idle"
    retries,
    delay,
    backoff,
    r_attempt,           \* the loop variable attempt
    current_delay,
    outcomes,            \* history: the outcome of each invocation of func, in order
    returned_from,       \* history: the invocation whose result was returned (0: none)
    raised_from,         \* history: the invocation whose exception left the wrapper
    sleeps               \* history: the delays slept, in order

scanVars == << pc, attempt, from_block, to_arg, to_block, batch_size,
               config_batch_size, current_block, current_batch_size, tip, tip0,
               covered, requeried, otherFails, nRL, results >>

VARIABLES
    \* ---- the pool-resolution routines ----
    routine,             \* which routine runs
    chain,               \* the key of the chain in CHAINS
    p_pc,                \* "check" | "done" | "idle"
    dex,                 \* the position of the loops: index into the DEX list,
    quote,               \*   into the quote assets
    fee,                 \*   and into the fee tiers (V3)
    found_pools,         \* found_pools / found_pairs
    queried,             \* history: DEX -> number of factory calls made
    ev,                  \* history: what the last factory call led to
    failDex,             \* environment: the DEX whose factory always raises (0: none)
    goodDex,             \* environment: a DEX whose factory never raises and
    goodQuote,           \*   that has a pair for this quote asset
    goodFee,             \*   (and fee tier) whose reads all succeed (0: none)
    goodReported,        \* history: that pair was reported
    nonZero              \* history: a factory call answered a non-zero address

poolVars == << routine, chain, p_pc, dex, quote, fee, found_pools, queried, ev,
               failDex, goodDex, goodQuote, goodFee, goodReported, nonZero >>

retryVars == << rpc, retries, delay, backoff, r_attempt, current_delay,
                outcomes, returned_from, raised_from, sleeps >>

VARIABLES
    \* ---- the other operations, one record of locals each ----
    pair,                \* a V2 pair-info or V3 pool-info call
    own,                 \* EventHandler.check_ownership and the chain it reads
    proc,                \* the process running main()
    det,                 \* ChainDetector.execute
    dec,                 \* the decoding of a pair-created log
    nest                 \* a decorated wrapper around the decorated get_events

moreVars == << pair, own, proc, det, dec, nest >>

vars == << scanVars, retryVars, poolVars, moreVars >>

Bump(n) == Min(n + 1, MaxCount)

(***************************************************************************)
(* async_retry, line 22: the wrapper re-raises on the last attempt.        *)
(***************************************************************************)
LastAttempt_OffByOne(att, n) == att = n

LastAttempt(att, n) == att = n - 1

(***************************************************************************)
(* get_events, lines 211-225: the window of one iteration, given the       *)
(* latest block number the provider answered.                              *)
(***************************************************************************)
LoopCondition == current_block < to_block

EndBlock_NoLatestClip(latest) ==
    Min(current_block + current_batch_size - 1, to_block)

EndBlock(latest) ==
    LET e == Min(current_block + current_batch_size - 1, to_block)
    IN  IF e > latest THEN latest ELSE e

ClippedToBlock(latest) ==
    LET e == Min(current_block + current_batch_size - 1, to_block)
    IN  IF e > latest THEN latest ELSE to_block

\* line 245
GrownBatchSize == Min(batch_size, current_batch_size * 2)

\* line 255
ShrunkBatchSize ==
    Max(config_batch_size \div FLOOR_DIVISOR, current_batch_size \div 2)

\* lines 251-260: the except branch; "limit" is an error whose text holds
\* "limit exceeded", "other" any other exception.
AfterError_Advance(kind) ==
    /\ current_block' = current_block + 1
    /\ current_batch_size' =
           IF kind = "limit" THEN ShrunkBatchSize ELSE current_batch_size
    /\ otherFails' = IF kind = "limit" THEN otherFails ELSE Bump(otherFails)
    /\ nRL' = IF kind = "limit"
              THEN (IF nRL = None THEN None ELSE Bump(nRL))
              ELSE (IF nRL = 0 THEN 0 ELSE None)

AfterError(kind) ==
    /\ current_block' = current_block
    /\ current_batch_size' =
           IF kind = "limit" THEN ShrunkBatchSize ELSE current_batch_size
    /\ otherFails' = IF kind = "limit" THEN otherFails ELSE Bump(otherFails)
    /\ nRL' = IF kind = "limit"
              THEN (IF nRL = None THEN None ELSE Bump(nRL))
              ELSE (IF nRL = 0 THEN 0 ELSE None)

ErrorKinds == {"limit", "other"}

\* No scan is running.
ScanIdle ==
    /\ pc = "idle"
    /\ attempt = 0
    /\ from_block = 0
    /\ to_arg = None
    /\ to_block = None
    /\ batch_size = 1
    /\ config_batch_size = 1
    /\ current_block = 0
    /\ current_batch_size = 1
    /\ tip = 0
    /\ tip0 = 0
    /\ covered = [b \in Blocks |-> 0]
    /\ requeried = FALSE
    /\ otherFails = 0
    /\ nRL = 0
    /\ results = [b \in Blocks |-> 0]

\* No decorated operation is running.
RetryIdle ==
    /\ rpc = "idle"
    /\ retries = 0
    /\ delay = 0
    /\ backoff = 0
    /\ r_attempt = 0
    /\ current_delay = 0
    /\ outcomes = << >>
    /\ returned_from = 0
    /\ raised_from = 0
    /\ sleeps = << >>

\* No pool-resolution routine is running.
NoEvent ==
    [dex |-> 0, quote |-> 0, fee |-> 0, result |-> None, raised |-> FALSE,
     reads |-> << >>, priced |-> FALSE, reported |-> FALSE, warned |-> FALSE]

PoolsIdle ==
    /\ routine = "none"
    /\ chain = "none"
    /\ p_pc = "idle"
    /\ dex = 0
    /\ quote = 0
    /\ fee = 0
    /\ found_pools = FALSE
    /\ queried = << >>
    /\ ev = NoEvent
    /\ failDex = 0
    /\ goodDex = 0
    /\ goodQuote = 0
    /\ goodFee = 0
    /\ goodReported = FALSE
    /\ nonZero = FALSE

\* None of the other operations is running.
Idle == [pc |-> "idle"]
PairIdle == pair = Idle
OwnIdle == own = Idle
ProcIdle == proc = Idle
DetIdle == det = Idle
DecIdle == dec = Idle
NestIdle == nest = Idle
MoreIdle ==
    PairIdle /\ OwnIdle /\ ProcIdle /\ DetIdle /\ DecIdle /\ NestIdle

InitScan ==
    /\ RetryIdle
    /\ PoolsIdle
    /\ MoreIdle
    /\ pc = "start"
    /\ attempt = 0
    /\ from_block \in Blocks
    /\ to_arg \in Blocks \cup {None}
    /\ to_block = to_arg
    /\ batch_size \in 1 .. MaxBatch
    /\ config_batch_size \in ConfigBatchSizes
    /\ current_block = from_block
    /\ current_batch_size = batch_size
    /\ tip \in Blocks
    /\ tip0 = tip
    /\ covered = [b \in Blocks |-> 0]
    /\ requeried = FALSE
    /\ otherFails = 0
    /\ nRL = 0
    /\ results = [b \in Blocks |-> 0]

\* lines 183-209: the arguments are resolved and the locals set.
Start(latest) ==
    /\ pc = "start"
    /\ tip' = latest
    /\ to_block' = IF to_arg = None THEN latest ELSE to_arg
    /\ current_block' = from_block
    /\ current_batch_size' = batch_size
    /\ pc' = "loop"
    /\ UNCHANGED << attempt, from_block, to_arg, batch_size, config_batch_size,
                    tip0, covered, requeried, otherFails, nRL,
                    results, retryVars, poolVars, moreVars >>

\* line 187 raises: the exception leaves the body and reaches async_retry
\* (retry.py lines 18-26), which runs the body again or re-raises.
StartRaises ==
    /\ pc = "start"
    /\ to_arg = None
    /\ IF LastAttempt(attempt, GET_EVENTS_RETRIES)
       THEN pc' = "raised" /\ attempt' = attempt
       ELSE pc' = "start" /\ attempt' = attempt + 1
    /\ UNCHANGED << from_block, to_arg, to_block, batch_size, config_batch_size,
                    current_block, current_batch_size, tip, tip0, covered,
                    requeried, otherFails, nRL,
                    results, retryVars, poolVars, moreVars >>

\* line 211: the loop condition is false, line 262 returns.
LoopExit ==
    /\ pc = "loop"
    /\ ~LoopCondition
    /\ pc' = "done"
    /\ UNCHANGED << attempt, from_block, to_arg, to_block, batch_size,
                    config_batch_size, current_block, current_batch_size, tip,
                    tip0, covered, requeried, otherFails, nRL,
                    results, retryVars, poolVars, moreVars >>

\* line 218 raises: no window was clipped, the except branch runs.
IterLatestFails(kind) ==
    /\ pc = "loop"
    /\ LoopCondition
    /\ AfterError(kind)
    /\ UNCHANGED << pc, attempt, from_block, to_arg, to_block, batch_size,
                    config_batch_size, tip, tip0, covered,
                    requeried,
                    results, retryVars, poolVars, moreVars >>

\* lines 224-225: nothing is left below the clipped end.
IterBreak(latest) ==
    /\ pc = "loop"
    /\ LoopCondition
    /\ tip' = latest
    /\ to_block' = ClippedToBlock(latest)
    /\ current_block > EndBlock(latest)
    /\ pc' = "done"
    /\ UNCHANGED << attempt, from_block, to_arg, batch_size, config_batch_size,
                    current_block, current_batch_size, tip0, covered, requeried,
                    otherFails, nRL,
                    results, retryVars, poolVars, moreVars >>

\* line 236 raises: the clipped to_block stays, the except branch runs.
IterGetLogsFails(latest, kind) ==
    /\ pc = "loop"
    /\ LoopCondition
    /\ tip' = latest
    /\ to_block' = ClippedToBlock(latest)
    /\ current_block <= EndBlock(latest)
    /\ requeried' = (requeried \/
           \E b \in current_block .. EndBlock(latest) : covered[b] > 0)
    /\ AfterError(kind)
    /\ UNCHANGED << pc, attempt, from_block, to_arg, batch_size,
                    config_batch_size, tip0, covered,
                    results, retryVars, poolVars, moreVars >>

\* lines 238-242: every block holds one matching log; the logs of the n
\* blocks from first on are appended to results.
Appended(first, n) ==
    [b \in Blocks |->
        IF first <= b /\ b < first + n THEN Bump(results[b]) ELSE results[b]]

\* lines 236-249: the window succeeds.
IterSuccess(latest) ==
    /\ pc = "loop"
    /\ LoopCondition
    /\ tip' = latest
    /\ to_block' = ClippedToBlock(latest)
    /\ current_block <= EndBlock(latest)
    /\ requeried' = (requeried \/
           \E b \in current_block .. EndBlock(latest) : covered[b] > 0)
    /\ covered' = [b \in Blocks |->
           IF b \in current_block .. EndBlock(latest)
           THEN Bump(covered[b]) ELSE covered[b]]
    /\ results' = Appended(current_block, EndBlock(latest) - current_block + 1)
    /\ current_batch_size' = GrownBatchSize
    /\ current_block' = EndBlock(latest) + 1
    /\ otherFails' = 0
    /\ nRL' = IF GrownBatchSize = batch_size THEN 0 ELSE None
    /\ UNCHANGED << pc, attempt, from_block, to_arg, batch_size,
                    config_batch_size, tip0,
                    retryVars, poolVars, moreVars >>

\* The chain only grows: a later answer is never below an earlier one.
LaterTips == tip .. MaxBlock

\* lines 238-242 raise: get_logs answered, process_log decoded the first k
\* logs of the window, which were appended to results, and raised on the
\* next one; the except branch runs as for any error that is not a rate
\* limit.
IterProcessLogFails(latest, k) ==
    /\ pc = "loop"
    /\ LoopCondition
    /\ tip' = latest
    /\ to_block' = ClippedToBlock(latest)
    /\ current_block <= EndBlock(latest)
    /\ k <= EndBlock(latest) - current_block
    /\ results' = Appended(current_block, k)
    /\ requeried' = (requeried \/
           \E b \in current_block .. EndBlock(latest) : covered[b] > 0)
    /\ AfterError("other")
    /\ UNCHANGED << pc, attempt, from_block, to_arg, batch_size,
                    config_batch_size, tip0, covered,
                    retryVars, poolVars, moreVars >>

NextScan ==
    \/ \E latest \in LaterTips : Start(latest)
    \/ StartRaises
    \/ LoopExit
    \/ \E kind \in ErrorKinds : IterLatestFails(kind)
    \/ \E latest \in LaterTips : IterBreak(latest)
    \/ \E latest \in LaterTips, kind \in ErrorKinds : IterGetLogsFails(latest, kind)
    \/ \E latest \in LaterTips : IterSuccess(latest)

SpecScan == InitScan /\ [][NextScan]_vars

(***************************************************************************)
(* get_events with logs that process_log may fail to decode.  For the      *)
(* cursor, the window and the batch size such an iteration is an           *)
(* iteration failing with an error that is not a rate limit, which         *)
(* SpecScan has; only results tells them apart.  The calls are those that  *)
(* pass batch_size = self.config.batch_size, as check_ownership does       *)
(* (line 313).                                                             *)
(***************************************************************************)
InitResults ==
    /\ InitScan
    /\ config_batch_size = batch_size

NextResults ==
    \/ NextScan
    \/ \E latest \in LaterTips, k \in 0 .. MaxBlock :
           IterProcessLogFails(latest, k)

SpecResults == InitResults /\ [][NextResults]_vars

(***************************************************************************)
(* async_retry (retry.py): the wrapper around one decorated operation.     *)
(* Each invocation of func either returns or raises an exception in        *)
(* `exceptions`; the k-th invocation's result or exception is named k.     *)
(***************************************************************************)
Calls == Len(outcomes)

\* line 26: current_delay *= backoff
NextDelay_Constant(d, b) == d

NextDelay(d, b) == d * b

InitRetry ==
    /\ ScanIdle
    /\ PoolsIdle
    /\ MoreIdle
    /\ rpc = "loop"
    /\ retries \in 0 .. MaxRetries
    /\ delay \in 1 .. MaxDelay
    /\ backoff \in 1 .. MaxBackoff
    /\ r_attempt = 0
    /\ current_delay = delay
    /\ outcomes = << >>
    /\ returned_from = 0
    /\ raised_from = 0
    /\ sleeps = << >>

\* lines 18-20: an attempt of the loop whose invocation returns.
AttemptReturns ==
    /\ rpc = "loop"
    /\ r_attempt < retries
    /\ outcomes' = Append(outcomes, "ok")
    /\ returned_from' = Calls + 1
    /\ rpc' = "returned"
    /\ UNCHANGED << retries, delay, backoff, r_attempt, current_delay,
                    raised_from, sleeps, scanVars, poolVars, moreVars >>

\* lines 18-26: an attempt of the loop whose invocation raises.
AttemptRaises ==
    /\ rpc = "loop"
    /\ r_attempt < retries
    /\ outcomes' = Append(outcomes, "err")
    /\ IF LastAttempt(r_attempt, retries)
       THEN /\ rpc' = "raised"
            /\ raised_from' = Calls + 1
            /\ UNCHANGED << r_attempt, current_delay, sleeps >>
       ELSE /\ sleeps' = Append(sleeps, current_delay)
            /\ current_delay' = NextDelay(current_delay, backoff)
            /\ r_attempt' = r_attempt + 1
            /\ UNCHANGED << rpc, raised_from >>
    /\ UNCHANGED << retries, delay, backoff, returned_from, scanVars, poolVars, moreVars >>

\* line 27: the loop ran out, func is invoked outside any try.
FinalCall(outcome) ==
    /\ rpc = "loop"
    /\ r_attempt >= retries
    /\ outcomes' = Append(outcomes, outcome)
    /\ IF outcome = "ok"
       THEN rpc' = "returned" /\ returned_from' = Calls + 1
                              /\ raised_from' = raised_from
       ELSE rpc' = "raised" /\ raised_from' = Calls + 1
                            /\ returned_from' = returned_from
    /\ UNCHANGED << retries, delay, backoff, r_attempt, current_delay, sleeps,
                    scanVars, poolVars, moreVars >>

NextRetry ==
    \/ AttemptReturns
    \/ AttemptRaises
    \/ \E outcome \in {"ok", "err"} : FinalCall(outcome)

SpecRetry == InitRetry /\ [][NextRetry]_vars

(***************************************************************************)
(* The registry (constants.py) as far as the pool routines read it.        *)
(***************************************************************************)
ChainKeys == << "ETH", "BSC", "POLYGON" >>

\* DEX_CONFIGS[chain]: the 'version' of each DEX, in the order of the dict.
DexVersions(c) ==
    CASE c = "ETH"     -> << 2, 3, 2 >>
      [] c = "BSC"     -> << 2, 3, 2 >>
      [] c = "POLYGON" -> << 2, 2 >>
      [] OTHER         -> << >>

\* STABLECOINS[chain]
Stablecoins(c) ==
    CASE c = "ETH"     -> << "USDT", "USDC", "DAI" >>
      [] c = "BSC"     -> << "USDT", "USDC", "BUSD" >>
      [] c = "POLYGON" -> << "USDT", "USDC", "DAI" >>
      [] OTHER         -> << >>

FEE_TIERS == << 100, 500, 3000, 10000 >>

\* '0x0000000000000000000000000000000000000000'
ZERO_ADDRESS == 0

Addresses == 0 .. MaxAddr

Routines == {"check_dex_pools", "chain_detector", "quick_check_contract"}

\* The chain a routine is called on: check_dex_pools takes any chain id, so
\* also one that no entry of CHAINS has (chain_key is None).
UnknownChain == "unknown"
ChainIdsGiven(r) ==
    { ChainKeys[i] : i \in 1 .. Len(ChainKeys) }
        \cup (IF r = "check_dex_pools" THEN {UnknownChain} ELSE {})

\* The quote assets a routine asks each factory about: check_dex_pools and
\* ChainDetector take the wrapped native token and the stablecoins,
\* quick_check_contract the wrapped native token alone.
PairsToCheck ==
    IF routine = "quick_check_contract"
    THEN << "Wrapped Native" >>
    ELSE << "Wrapped Native" >> \o Stablecoins(chain)

NumDex == Len(DexVersions(chain))
DexIds == 1 .. NumDex
Version(d) == DexVersions(chain)[d]

\* The number of factory calls a full pass over DEX d makes.
NumCandidates(d) ==
    IF Version(d) = 2 THEN Len(PairsToCheck)
    ELSE Len(PairsToCheck) * Len(FEE_TIERS)

(***************************************************************************)
(* Where the loops stand after a step.                                     *)
(***************************************************************************)
Position(c, d, q, f) == [pc |-> c, dex |-> d, quote |-> q, fee |-> f]

\* the for over the DEXes moves on (or ends)
NextDex(d) ==
    IF d < NumDex THEN Position("check", d + 1, 1, 1)
    ELSE Position("done", d, 1, 1)

\* the innermost for moves on
NextCandidate(d, q, f) ==
    IF Version(d) = 3 /\ f < Len(FEE_TIERS) THEN Position("check", d, q, f + 1)
    ELSE IF q < Len(PairsToCheck) THEN Position("check", d, q + 1, 1)
    ELSE NextDex(d)

Here == Position(p_pc, dex, quote, fee)

\* check_dex_pools, lines 135-137 and 143-144: found_pools = True is set
\* when the address is not zero, before the pair is read.
FoundPools_IfRead(found, read_ok) == found \/ read_ok

FoundPools(found, read_ok) == TRUE

\* `pair != '0x00...00'`
PairExists_Always(addr) == TRUE

PairExists(addr) == addr # ZERO_ADDRESS

\* ChainDetector._check_v2_pools, lines 193-194, and _check_v3_pools, lines
\* 231-232: the except of one candidate's try logs a warning, and the for
\* loop goes on with the next candidate.
AfterCandidateError_SkipDex(d, q, f) == NextDex(d)

AfterCandidateError(d, q, f) == NextCandidate(d, q, f)

\* DexAnalyzer.check_dex_pools, lines 150-152: the except of the DEX's try
\* logs a warning and continues with the next DEX.
AfterDexError_Abort(d) == Position("done", d, 1, 1)

AfterDexError(d) == NextDex(d)

(***************************************************************************)
(* The reads that follow a pair or pool address, in order, and whether a   *)
(* price is computed from them.                                            *)
(***************************************************************************)
V2PairInfoReads == << "getReserves", "token0", "decimals", "decimals" >>
V3PoolInfoReads == << "liquidity", "slot0", "decimals", "decimals" >>

ReadsOf(r, version) ==
    CASE r = "check_dex_pools" /\ version = 2      -> V2PairInfoReads
      [] r = "check_dex_pools" /\ version = 3      -> << >>
      [] r = "chain_detector" /\ version = 2       -> V2PairInfoReads
      [] r = "chain_detector" /\ version = 3       -> V3PoolInfoReads
      [] r = "quick_check_contract" /\ version = 2 -> << "getReserves", "token0" >>
      [] r = "quick_check_contract" /\ version = 3 -> << "liquidity", "slot0" >>

ComputesPrice(r, version) ==
    \/ r = "check_dex_pools" /\ version = 2
    \/ r = "chain_detector"

\* The V2 price divides by the token's reserve: it raises when that is 0.
PriceMayRaise(r, version) == ComputesPrice(r, version) /\ version = 2

\* The step that fails after a pair or pool was found: 0 for none, k for the
\* k-th read, Len + 1 for the price.
FailPoints(r, version) ==
    0 .. (Len(ReadsOf(r, version)) + IF PriceMayRaise(r, version) THEN 1 ELSE 0)

ReadsDone(r, version, fail) ==
    LET rl == ReadsOf(r, version)
    IN  IF fail = 0 \/ fail > Len(rl) THEN rl ELSE SubSeq(rl, 1, fail)

PriceDone(r, version, fail) ==
    /\ ComputesPrice(r, version)
    /\ (fail = 0 \/ fail > Len(ReadsOf(r, version)))

(***************************************************************************)
(* The provider: what a factory call for a candidate may answer.           *)
(***************************************************************************)
IsGood(d, q, f) == d # 0 /\ d = goodDex /\ q = goodQuote /\ f = goodFee

\* A factory call raises (TRUE) or answers an address.
FactoryAnswers(d, q, f) ==
    IF d \notin DexIds THEN {}
    ELSE IF d = failDex THEN { [raised |-> TRUE, addr |-> None] }
    ELSE IF IsGood(d, q, f) THEN { [raised |-> FALSE, addr |-> MaxAddr] }
    ELSE { [raised |-> FALSE, addr |-> a] : a \in Addresses }
         \cup (IF d = goodDex THEN {} ELSE { [raised |-> TRUE, addr |-> None] })

FailAnswers(d, q, f, ans) ==
    IF ans.raised \/ ans.addr = ZERO_ADDRESS \/ IsGood(d, q, f) THEN {0}
    ELSE FailPoints(routine, Version(d))

InitPools ==
    /\ ScanIdle
    /\ RetryIdle
    /\ MoreIdle
    /\ routine \in Routines
    /\ chain \in ChainIdsGiven(routine)
    /\ p_pc = "check"
    /\ dex = 1
    /\ quote = 1
    /\ fee = 1
    /\ found_pools = FALSE
    /\ queried = [d \in DexIds |-> 0]
    /\ ev = NoEvent
    /\ failDex \in 0 .. NumDex
    /\ goodDex \in 0 .. NumDex
    /\ goodQuote \in 0 .. Len(PairsToCheck)
    /\ goodFee \in 0 .. Len(FEE_TIERS)
    /\ \/ failDex = 0 /\ goodDex = 0 /\ goodQuote = 0 /\ goodFee = 0
       \/ /\ routine = "check_dex_pools"
          /\ failDex # 0 /\ goodDex # 0 /\ failDex # goodDex
          /\ goodQuote # 0 /\ goodFee # 0
          /\ Version(goodDex) = 2 => goodFee = 1
    /\ goodReported = FALSE
    /\ nonZero = FALSE

\* DexAnalyzer.check_dex_pools, lines 108-111: the chain id is in no entry
\* of CHAINS, a warning is logged and False is returned.
CheckDexPoolsUnknownChain ==
    /\ routine = "check_dex_pools"
    /\ p_pc = "check"
    /\ chain = UnknownChain
    /\ p_pc' = "done"
    /\ ev' = [NoEvent EXCEPT !.warned = TRUE]
    /\ UNCHANGED << routine, chain, dex, quote, fee, found_pools, queried,
                    failDex, goodDex, goodQuote, goodFee, goodReported,
                    nonZero, scanVars, retryVars, moreVars >>

\* What every step records and how it moves.
Record(ans, reads, priced, reported, warned, next) ==
    /\ ev' = [dex |-> dex, quote |-> quote, fee |-> fee, result |-> ans.addr,
              raised |-> ans.raised, reads |-> reads, priced |-> priced,
              reported |-> reported, warned |-> warned]
    /\ queried' = [queried EXCEPT ![dex] = @ + 1]
    /\ goodReported' = (goodReported \/ (IsGood(dex, quote, fee) /\ reported))
    /\ nonZero' = (nonZero \/ (~ans.raised /\ ans.addr # ZERO_ADDRESS))
    /\ p_pc' = next.pc
    /\ dex' = next.dex
    /\ quote' = next.quote
    /\ fee' = next.fee
    /\ UNCHANGED << routine, chain, failDex, goodDex, goodQuote, goodFee,
                    scanVars, retryVars, moreVars >>

\* DexAnalyzer.check_dex_pools, lines 123-152: one getPair / getPool call
\* and what follows it (get_pair_info, lines 174-220, for a V2 pair).
CheckDexPoolsStep(ans, fail) ==
    /\ routine = "check_dex_pools"
    /\ p_pc = "check"
    /\ LET v == Version(dex) IN
       IF ans.raised
       THEN /\ found_pools' = found_pools
            /\ Record(ans, << >>, FALSE, FALSE, TRUE, AfterDexError(dex))
       ELSE IF ~PairExists(ans.addr)
       THEN /\ found_pools' = found_pools
            /\ Record(ans, << >>, FALSE, FALSE, FALSE,
                      NextCandidate(dex, quote, fee))
       ELSE /\ found_pools' = FoundPools(found_pools, fail = 0)
            /\ Record(ans, ReadsDone(routine, v, fail),
                      PriceDone(routine, v, fail),
                      fail = 0, fail # 0, NextCandidate(dex, quote, fee))

\* ChainDetector._check_v2_pools / _check_v3_pools, lines 177-235: one
\* candidate of the DEX that _check_all_dexes (lines 157-163) is at, with
\* _get_v2_pair_info / _get_v3_pool_info for an address found.
ChainDetectorStep(ans, fail) ==
    /\ routine = "chain_detector"
    /\ p_pc = "check"
    /\ LET v == Version(dex)
           found == IF quote = 1 /\ fee = 1 THEN FALSE ELSE found_pools
       IN
       IF ans.raised
       THEN /\ found_pools' = found
            /\ Record(ans, << >>, FALSE, FALSE, TRUE,
                      AfterCandidateError(dex, quote, fee))
       ELSE IF ~PairExists(ans.addr)
       THEN /\ found_pools' = found
            /\ Record(ans, << >>, FALSE, FALSE, FALSE,
                      NextCandidate(dex, quote, fee))
       ELSE /\ found_pools' = TRUE
            /\ Record(ans, ReadsDone(routine, v, fail),
                      PriceDone(routine, v, fail),
                      fail = 0, fail # 0, NextCandidate(dex, quote, fee))

\* EventHandler.quick_check_contract, lines 368-451: one getPair / getPool
\* call for the wrapped native token and the reads after it; any raise
\* reaches the except of the DEX's try.
QuickCheckStep(ans, fail) ==
    /\ routine = "quick_check_contract"
    /\ p_pc = "check"
    /\ found_pools' = found_pools
    /\ LET v == Version(dex) IN
       IF ans.raised
       THEN Record(ans, << >>, FALSE, FALSE, TRUE, NextDex(dex))
       ELSE IF ~PairExists(ans.addr)
       THEN Record(ans, << >>, FALSE, FALSE, FALSE,
                   NextCandidate(dex, quote, fee))
       ELSE IF fail # 0
       THEN Record(ans, ReadsDone(routine, v, fail), FALSE, FALSE, TRUE,
                   NextDex(dex))
       ELSE Record(ans, ReadsDone(routine, v, fail), FALSE, TRUE, FALSE,
                   NextCandidate(dex, quote, fee))

NextPools ==
    \/ CheckDexPoolsUnknownChain
    \/ \E ans \in FactoryAnswers(dex, quote, fee) :
           \E fail \in FailAnswers(dex, quote, fee, ans) :
               CheckDexPoolsStep(ans, fail)
    \/ \E ans \in FactoryAnswers(dex, quote, fee) :
           \E fail \in FailAnswers(dex, quote, fee, ans) :
               ChainDetectorStep(ans, fail)
    \/ \E ans \in FactoryAnswers(dex, quote, fee) :
           \E fail \in FailAnswers(dex, quote, fee, ans) :
               QuickCheckStep(ans, fail)

SpecPools == InitPools /\ [][NextPools]_vars

(***************************************************************************)
(* Python's float and int arithmetic, as the price computations use it.    *)
(* A float is a binary floating-point number m * 2^e whose mantissa m has  *)
(* MantissaBits bits (2^(MantissaBits-1) <= m < 2^MantissaBits), or zero;  *)
(* every float operation rounds its exact result to the nearest float,     *)
(* ties to the even mantissa (IEEE 754, which has 53 bits).  The exponent  *)
(* range is not a limit for uint112 reserves and uint8 decimals.           *)
(***************************************************************************)
ZeroFloat == [m |-> 0, e |-> 0]

\* n / d * 2^e with n / d brought into [2^(MantissaBits-1), 2^MantissaBits).
RECURSIVE Normalize(_, _, _)
Normalize(n, d, e) ==
    IF n >= Pow2(MantissaBits) * d THEN Normalize(n, 2 * d, e + 1)
    ELSE IF n < Pow2(MantissaBits - 1) * d THEN Normalize(2 * n, d, e - 1)
    ELSE << n, d, e >>

RoundHalfEven(n, d) ==
    LET q == n \div d
        r == n % d
    IN  IF 2 * r > d \/ (2 * r = d /\ q % 2 = 1) THEN q + 1 ELSE q

\* The float nearest to the exact value n / d * 2^e (n >= 0, d > 0).
RoundRatio(n, d, e) ==
    IF n = 0 THEN ZeroFloat
    ELSE LET t == Normalize(n, d, e)
             m == RoundHalfEven(t[1], t[2])
         IN  IF m = Pow2(MantissaBits)
             THEN [m |-> Pow2(MantissaBits - 1), e |-> t[3] + 1]
             ELSE [m |-> m, e |-> t[3]]

\* int / int (true division), float(int), float / float and float * float.
\* A division by zero raises ZeroDivisionError.
ZeroDivisionError == [raises |-> "ZeroDivisionError"]
IntTrueDiv(a, b) == RoundRatio(a, b, 0)
FloatOfInt(a) == RoundRatio(a, 1, 0)
FloatDiv(x, y) ==
    IF y = ZeroFloat THEN ZeroDivisionError
    ELSE RoundRatio(x.m, y.m, x.e - y.e)
FloatMul(x, y) == RoundRatio(x.m * y.m, 1, x.e + y.e)

\* c1 * x <= c2 * y for floats x, y and naturals c1, c2.
FloatLeq(c1, x, c2, y) ==
    LET emin == Min(x.e, y.e)
    IN  c1 * x.m * Pow2(x.e - emin) <= c2 * y.m * Pow2(y.e - emin)

OneFloat == FloatOfInt(1)

(***************************************************************************)
(* The V2 pair-info and V3 pool-info routines, called on a pair or pool    *)
(* whose reads answer: which reserve is the token's, then the price.       *)
(***************************************************************************)
PairRoutines == { "DexAnalyzer.get_pair_info",
                  "ChainDetector._get_v2_pair_info",
                  "PoolAnalyzer._get_pair_info" }
ReserveRoutines == PairRoutines \cup { "EventHandler.quick_check_contract" }
PoolRoutines == { "ChainDetector._get_v3_pool_info",
                  "DexV3Analyzer.get_pool_info" }

\* An address string: its 20 bytes (id) and the case of its hex digits.
AddressStrings == [id : 1 .. 2, casing : {"lower", "checksum"}]
Lower(a) == [a EXCEPT !.casing = "lower"]

\* token0.lower() == self.contract_address.lower()
IsToken0_CaseSensitive(token0, contract_address) == token0 = contract_address

IsToken0(token0, contract_address) == Lower(token0) = Lower(contract_address)
TokenReserve(reserves, is_token0) ==
    IF is_token0 THEN reserves[1] ELSE reserves[2]
QuoteReserve(reserves, is_token0) ==
    IF is_token0 THEN reserves[2] ELSE reserves[1]

\* price = (quote_reserve / 10**quote_decimals)
\*             / (token_reserve / 10**token_decimals)
V2Price_QuoteOnly(token_reserve, quote_reserve, token_decimals, quote_decimals) ==
    IntTrueDiv(quote_reserve, Pow10(quote_decimals))

V2Price(token_reserve, quote_reserve, token_decimals, quote_decimals) ==
    FloatDiv(IntTrueDiv(quote_reserve, Pow10(quote_decimals)),
             IntTrueDiv(token_reserve, Pow10(token_decimals)))

HasLiquidity(token_reserve, quote_reserve) ==
    token_reserve > 0 /\ quote_reserve > 0

\* sqrtPriceX96 is the integer m * 2^e; its square is exact.
SqrtPrices == [m : 0 .. MaxSqrtMant, e : (Q96 - 1) .. (Q96 + 1)]

\* price = (sqrt_price_x96 ** 2) / (2 ** 192)
V3RawPrice_NoSquare(sqrt_price_x96) ==
    RoundRatio(sqrt_price_x96.m, 1, sqrt_price_x96.e - PRICE_SHIFT)

V3RawPrice(sqrt_price_x96) ==
    RoundRatio(sqrt_price_x96.m * sqrt_price_x96.m, 1,
               2 * sqrt_price_x96.e - PRICE_SHIFT)

\* adjusted_price = price * (10 ** token_decimals) / (10 ** quote_decimals)
V3Price(sqrt_price_x96, token_decimals, quote_decimals) ==
    FloatDiv(FloatMul(V3RawPrice(sqrt_price_x96),
                      FloatOfInt(Pow10(token_decimals))),
             FloatOfInt(Pow10(quote_decimals)))

NoResult ==
    [outcome |-> "none", price |-> None, warning |-> "none",
     token |-> None, quote |-> None]

notPair == << scanVars, retryVars, poolVars, own, proc, det, dec, nest >>

InitPrice ==
    /\ ScanIdle /\ RetryIdle /\ PoolsIdle
    /\ OwnIdle /\ ProcIdle /\ DetIdle /\ DecIdle /\ NestIdle
    /\ \E r \in ReserveRoutines \cup PoolRoutines,
          td \in 0 .. MaxDecimals, qd \in 0 .. MaxDecimals :
         \/ /\ r \in ReserveRoutines
            /\ \E r0 \in 0 .. MaxReserve, r1 \in 0 .. MaxReserve,
                  t0 \in AddressStrings,
                  ca \in { a \in AddressStrings : a.id = 1 } :
                 pair = [pc |-> "call", routine |-> r,
                         reserves |-> << r0, r1 >>, token0 |-> t0,
                         contract_address |-> ca,
                         sqrt_price_x96 |-> None,
                         token_decimals |-> td, quote_decimals |-> qd,
                         result |-> NoResult, prev |-> NoResult, k |-> 1]
         \/ /\ r \in PoolRoutines
            /\ \E sp \in SqrtPrices :
                 pair = [pc |-> "call", routine |-> r,
                         reserves |-> << 0, 0 >>, token0 |-> None,
                         contract_address |-> None,
                         sqrt_price_x96 |-> sp,
                         token_decimals |-> td, quote_decimals |-> qd,
                         result |-> NoResult, prev |-> NoResult, k |-> 1]

token_reserve ==
    TokenReserve(pair.reserves, IsToken0(pair.token0, pair.contract_address))
quote_reserve ==
    QuoteReserve(pair.reserves, IsToken0(pair.token0, pair.contract_address))

Finish(result) ==
    /\ pair' = [pair EXCEPT !.pc = "done", !.result = result]
    /\ UNCHANGED notPair

\* DexAnalyzer.get_pair_info, base.py lines 174-220, and
\* ChainDetector._get_v2_pair_info, chain_detector.py lines 245-287: the
\* price is computed inside the try; any exception becomes the warning.
GetPairInfo ==
    /\ pair.pc = "call"
    /\ pair.routine \in { "DexAnalyzer.get_pair_info",
                          "ChainDetector._get_v2_pair_info" }
    /\ LET price == V2Price(token_reserve, quote_reserve,
                            pair.token_decimals, pair.quote_decimals)
       IN  IF price = ZeroDivisionError
           THEN Finish([outcome |-> "failed", price |-> None,
                        warning |-> "pair_info_failed",
                        token |-> None, quote |-> None])
           ELSE Finish([outcome |-> "info", price |-> price,
                        warning |-> "none",
                        token |-> token_reserve, quote |-> quote_reserve])

\* PoolAnalyzer._get_pair_info, pool.py lines 83-149: the price is computed
\* only when both reserves are positive.
PoolGetPairInfo ==
    /\ pair.pc = "call"
    /\ pair.routine = "PoolAnalyzer._get_pair_info"
    /\ IF HasLiquidity(token_reserve, quote_reserve)
       THEN Finish([outcome |-> "info",
                    price |-> V2Price(token_reserve, quote_reserve,
                                      pair.token_decimals,
                                      pair.quote_decimals),
                    warning |-> "none",
                    token |-> token_reserve, quote |-> quote_reserve])
       ELSE Finish([outcome |-> "no_liquidity", price |-> None,
                    warning |-> "no_liquidity",
                    token |-> token_reserve, quote |-> quote_reserve])

\* ChainDetector._get_v3_pool_info, chain_detector.py lines 299-337.
GetV3PoolInfo ==
    /\ pair.pc = "call"
    /\ pair.routine = "ChainDetector._get_v3_pool_info"
    /\ Finish([outcome |-> "info",
               price |-> V3Price(pair.sqrt_price_x96, pair.token_decimals,
                                 pair.quote_decimals),
               warning |-> "none", token |-> None, quote |-> None])

\* DexV3Analyzer.get_pool_info, v3.py lines 33-73: self.POOL_V3_ABI is not
\* an attribute of the class, so line 36 raises AttributeError before any
\* read; the price lines 58-59 are not reached.
DexV3GetPoolInfo ==
    /\ pair.pc = "call"
    /\ pair.routine = "DexV3Analyzer.get_pool_info"
    /\ Finish([outcome |-> "failed", price |-> None,
               warning |-> "pool_info_failed",
               token |-> None, quote |-> None])

\* EventHandler.quick_check_contract, event_handler.py lines 391-404: the
\* V2 branch reports the two reserves ('token', 'bnb') and no price.
QuickCheckReserves ==
    /\ pair.pc = "call"
    /\ pair.routine = "EventHandler.quick_check_contract"
    /\ Finish([outcome |-> "info", price |-> None, warning |-> "none",
               token |-> token_reserve, quote |-> quote_reserve])

\* The pair trades: both reserves grow by the factor k, and the routine is
\* called again.
Rescale(k) ==
    /\ pair.pc = "done"
    /\ pair.routine \in PairRoutines
    /\ pair.k = 1
    /\ pair' = [pair EXCEPT !.pc = "call", !.k = k, !.prev = pair.result,
                            !.result = NoResult,
                            !.reserves = << k * @[1], k * @[2] >>]
    /\ UNCHANGED notPair

NextPrice ==
    \/ GetPairInfo
    \/ PoolGetPairInfo
    \/ GetV3PoolInfo
    \/ DexV3GetPoolInfo
    \/ QuickCheckReserves
    \/ \E k \in 2 .. MaxScale : Rescale(k)

SpecPrice == InitPrice /\ [][NextPrice]_vars

(***************************************************************************)
(* EventHandler.check_ownership and the chain it reads.  The chain mines   *)
(* blocks with OwnershipTransferred events while the routine runs.         *)
(***************************************************************************)
DEPLOYMENT_BLOCK == 0

\* The last block that a get_events run without errors queries: the loop of
\* lines 211-249 from current_block with windows of batch_size blocks.
RECURSIVE LastScanned(_, _, _, _)
LastScanned(cur, to, bs, last) ==
    IF cur < to
    THEN LastScanned(Min(cur + bs - 1, to) + 1, to, bs, Min(cur + bs - 1, to))
    ELSE last

\* All orders of the elements of a sequence.
Permutations_(s) ==
    { p \in [1 .. Len(s) -> 1 .. Len(s)] :
          \A i, j \in 1 .. Len(s) : i # j => p[i] # p[j] }
Orders(s) == { [i \in 1 .. Len(s) |-> s[p[i]]] : p \in Permutations_(s) }

\* list.sort(key=lambda x: x['blockNumber']): a stable sort.
RECURSIVE InsertByBlock(_, _)
InsertByBlock(s, event) ==
    IF s = << >> THEN << event >>
    ELSE IF s[Len(s)].blockNumber <= event.blockNumber THEN Append(s, event)
    ELSE Append(InsertByBlock(SubSeq(s, 1, Len(s) - 1), event), s[Len(s)])

SortByBlock_Unsorted(s) == s

RECURSIVE SortByBlock(_)
SortByBlock(s) ==
    IF s = << >> THEN << >>
    ELSE InsertByBlock(SortByBlock(SubSeq(s, 1, Len(s) - 1)), s[Len(s)])

\* The loop body of lines 321-331 raises when a fetch raises.
FetchRaises_TxOnly(txOk, blockOk) == ~txOk

FetchRaises(txOk, blockOk) == ~txOk \/ ~blockOk

\* The deployer is owner 1; an Ownable constructor emits the first event.
ConstructorLog ==
    << [blockNumber |-> DEPLOYMENT_BLOCK, transactionHash |-> 1,
        previousOwner |-> ZERO_ADDRESS, newOwner |-> 1] >>

notOwn == << scanVars, retryVars, poolVars, pair, proc, det, dec, nest >>

InitOwnership ==
    /\ ScanIdle /\ RetryIdle /\ PoolsIdle
    /\ PairIdle /\ ProcIdle /\ DetIdle /\ DecIdle /\ NestIdle
    /\ \E bs \in {1, BATCH_SIZE}, log \in { << >>, ConstructorLog } :
         own = [pc |-> "owner",
                owner |-> 1, log |-> log, tip |-> DEPLOYMENT_BLOCK,
                batch_size |-> bs,
                current_owner |-> None,
                delivered |-> << >>,
                ownership_transfers |-> << >>,
                transfer_details |-> << >>,
                result |-> None,
                fetch_failed |-> FALSE]

\* The routine has not read the chain for the last time yet.
Running == own.pc \in {"owner", "scan"}

\* The chain mines block tip + 1 with n transactions: each transfers the
\* ownership from the owner at that point to an owner that never owned the
\* contract (the owner hash + 1 for the event of transaction hash), or, in
\* the last one when renounce is set, to the zero address.
RECURSIVE Transfers(_, _, _, _, _)
Transfers(n, renounce, block, prev, hash) ==
    IF n = 0 THEN << >>
    ELSE LET new == IF n = 1 /\ renounce THEN ZERO_ADDRESS ELSE hash + 1
         IN  << [blockNumber |-> block, transactionHash |-> hash,
                 previousOwner |-> prev, newOwner |-> new] >>
             \o Transfers(n - 1, renounce, block, new, hash + 1)

MineBlock(n, renounce) ==
    /\ Running
    /\ own.tip < MaxBlock
    /\ Len(own.log) + n <= MaxEvents
    /\ n > 0 => own.owner # ZERO_ADDRESS
    /\ renounce => n > 0
    /\ LET mined == Transfers(n, renounce, own.tip + 1, own.owner,
                              Len(own.log) + 1)
       IN  own' = [own EXCEPT
                     !.tip = @ + 1,
                     !.log = @ \o mined,
                     !.owner = IF n = 0 THEN @ ELSE mined[n].newOwner]
    /\ UNCHANGED notOwn

Raise ==
    /\ own' = [own EXCEPT !.pc = "raised"]
    /\ UNCHANGED notOwn

\* line 308: current_owner = self.contract.functions.owner().call()
ReadOwner ==
    /\ own.pc = "owner"
    /\ own' = [own EXCEPT !.pc = "scan", !.current_owner = own.owner]
    /\ UNCHANGED notOwn

ReadOwnerRaises ==
    /\ own.pc = "owner"
    /\ Raise

\* lines 311-314: get_events from the deployment block to the latest block;
\* the provider delivers the logs of the queried blocks in some order.
InScan(event) ==
    event.blockNumber
        <= LastScanned(DEPLOYMENT_BLOCK, own.tip, own.batch_size, None)

GetEvents(events) ==
    /\ own.pc = "scan"
    /\ own' = [own EXCEPT !.pc = "sort", !.delivered = events,
                          !.ownership_transfers = events]
    /\ UNCHANGED notOwn

GetEventsRaises ==
    /\ own.pc = "scan"
    /\ Raise

\* line 317
Sort ==
    /\ own.pc = "sort"
    /\ own' = [own EXCEPT !.pc = "details",
                 !.ownership_transfers = SortByBlock(@)]
    /\ UNCHANGED notOwn

\* lines 321-331: the next event's transaction and block are fetched.
Detail(txOk, blockOk) ==
    /\ own.pc = "details"
    /\ Len(own.transfer_details) < Len(own.ownership_transfers)
    /\ LET event == own.ownership_transfers[Len(own.transfer_details) + 1]
           failed == ~txOk \/ ~blockOk
       IN  IF FetchRaises(txOk, blockOk)
           THEN own' = [own EXCEPT !.pc = "raised", !.fetch_failed = TRUE]
           ELSE own' = [own EXCEPT
                   !.fetch_failed = @ \/ failed,
                   !.transfer_details = Append(@,
                       [block_number |-> event.blockNumber,
                        tx_hash |-> event.transactionHash,
                        previous_owner |-> event.previousOwner,
                        new_owner |-> event.newOwner])]
    /\ UNCHANGED notOwn

\* lines 333-337
Return ==
    /\ own.pc = "details"
    /\ Len(own.transfer_details) = Len(own.ownership_transfers)
    /\ own' = [own EXCEPT !.pc = "returned",
                 !.result = [current_owner |-> own.current_owner,
                             is_renounced |-> (own.current_owner = ZERO_ADDRESS),
                             transfer_history |-> own.transfer_details]]
    /\ UNCHANGED notOwn

NextOwnership ==
    \/ \E n \in 0 .. 2, renounce \in BOOLEAN : MineBlock(n, renounce)
    \/ ReadOwner
    \/ ReadOwnerRaises
    \/ \E events \in Orders(SelectSeq(own.log, InScan)) : GetEvents(events)
    \/ GetEventsRaises
    \/ Sort
    \/ \E txOk \in BOOLEAN, blockOk \in BOOLEAN : Detail(txOk, blockOk)
    \/ Return

SpecOwnership == InitOwnership /\ [][NextOwnership]_vars

(***************************************************************************)
(* The process: main.py dispatches on its arguments, then constructs and   *)
(* executes the analysis tasks in order.  ChainDetector.execute is         *)
(* modelled stage by stage.                                                *)
(***************************************************************************)
\* main.py lines 59-64 with lines 10-42: the tasks of the entry point.
TasksOf(args) ==
    IF args.contract THEN << "ChainDetector" >>
    ELSE IF args.tx THEN << "PoolAnalyzer" >>
    ELSE << "ContractInfoAnalyzer", "OwnershipAnalyzer", "PoolAnalyzer" >>

\* The keys of DEX_CONFIGS.
DexConfigKeys == { "ETH", "BSC", "POLYGON" }

DetStart ==
    [pc |-> "detect", chain_index |-> 1, detected_chain |-> "none",
     stages |-> << >>, warnings |-> << >>, cause |-> "none",
     probes |-> << >>]

notProc == << scanVars, retryVars, poolVars, pair, own, dec, nest >>

InitProcess ==
    /\ ScanIdle /\ RetryIdle /\ PoolsIdle
    /\ PairIdle /\ OwnIdle /\ DecIdle /\ NestIdle
    /\ \E args \in [contract : BOOLEAN, tx : BOOLEAN, quick : BOOLEAN] :
         proc = [pc |-> "dispatch", args |-> args, tasks |-> << >>, i |-> 0,
                 executed |-> << >>, failed |-> 0, exit_code |-> None,
                 exit_cause |-> "none"]
    /\ det = Idle

\* sys.exit(1) raises SystemExit, which is not an Exception: no except
\* clause of the program catches it and the interpreter exits.
SysExit(p, cause) ==
    [p EXCEPT !.pc = "exited", !.exit_code = 1, !.exit_cause = cause]

\* BaseAnalyzer._handle_error, base.py lines 22-25, called from the except
\* of the task's execute.
HandleError(p) ==
    SysExit([p EXCEPT !.failed = p.i, !.executed = Append(@, p.tasks[p.i])],
            "handle_error")

\* The task's execute returned: the next statement of the entry point runs,
\* and after the last one asyncio.run returns and the process ends.
Returns(p) ==
    LET q == [p EXCEPT !.executed = Append(@, p.tasks[p.i])]
    IN  IF p.i < Len(p.tasks)
        THEN [q EXCEPT !.pc = "construct", !.i = @ + 1]
        ELSE [q EXCEPT !.pc = "exited", !.exit_code = 0, !.exit_cause = "end"]

Dispatch ==
    /\ proc.pc = "dispatch"
    /\ proc' = [proc EXCEPT !.pc = "construct", !.i = 1,
                            !.tasks = TasksOf(proc.args)]
    /\ UNCHANGED << det, notProc >>

\* BaseAnalyzer.__init__, base.py lines 13-16.
Construct ==
    /\ proc.pc = "construct"
    /\ proc' = [proc EXCEPT !.pc = "execute"]
    /\ det' = IF proc.tasks[proc.i] = "ChainDetector" THEN DetStart ELSE det
    /\ UNCHANGED notProc

\* The constructor raises: the except Exception of the entry point logs it
\* and calls sys.exit(1) (main.py lines 22-24, 31-33, 40-42).
ConstructRaises ==
    /\ proc.pc = "construct"
    /\ proc' = SysExit(proc, "constructor")
    /\ UNCHANGED << det, notProc >>

\* ContractInfoAnalyzer.execute, OwnershipAnalyzer.execute (contract.py
\* lines 11-42) and PoolAnalyzer.execute (pool.py lines 25-33).
Execute(ok) ==
    /\ proc.pc = "execute"
    /\ proc.tasks[proc.i] # "ChainDetector"
    /\ proc' = IF ok THEN Returns(proc) ELSE HandleError(proc)
    /\ UNCHANGED << det, notProc >>

Detecting(stage) ==
    /\ proc.pc = "execute"
    /\ proc.tasks[proc.i] = "ChainDetector"
    /\ det.pc = stage

\* ChainDetector.execute returns after a warning.
WarnAndReturn(warning, cause, stage) ==
    /\ det' = [det EXCEPT !.pc = "returned", !.cause = cause,
                          !.stages = Append(@, stage),
                          !.warnings = Append(@, warning)]
    /\ proc' = Returns(proc)
    /\ UNCHANGED notProc

\* _detect_chain, lines 100-107: the node is connected and get_code
\* answered code that is not empty.
HoldsContract_AnyAnswer(outcome) == outcome \in {"code", "no_code"}

HoldsContract(outcome) == outcome = "code"

\* ChainDetector._detect_chain, lines 90-112, one chain of CHAINS, and
\* lines 44-51 of execute when the loop ends; probes is the history of the
\* chains probed and what each answered.
DetectChain(outcome) ==
    /\ Detecting("detect")
    /\ LET probed == [det EXCEPT !.probes =
                         Append(@, [chain |-> ChainKeys[det.chain_index],
                                    outcome |-> outcome])]
       IN
       IF HoldsContract(outcome)
       THEN /\ det' = [probed EXCEPT !.pc = "init_web3",
                         !.detected_chain = ChainKeys[det.chain_index],
                         !.stages = Append(@, "detect_chain")]
            /\ UNCHANGED << proc, notProc >>
       ELSE IF det.chain_index < Len(ChainKeys)
       THEN /\ det' = [probed EXCEPT !.chain_index = @ + 1]
            /\ UNCHANGED << proc, notProc >>
       ELSE /\ det' = [probed EXCEPT !.pc = "returned", !.cause = "no_chain",
                         !.stages = Append(@, "detect_chain"),
                         !.warnings = Append(@, "chain_not_determined")]
            /\ proc' = Returns(proc)
            /\ UNCHANGED notProc

\* lines 54-57 with _init_web3, lines 73-88.
InitWeb3(connected) ==
    /\ Detecting("init_web3")
    /\ IF connected
       THEN /\ det' = [det EXCEPT !.pc = "check_code",
                                  !.stages = Append(@, "init_web3")]
            /\ UNCHANGED << proc, notProc >>
       ELSE WarnAndReturn("cannot_connect", "no_connection", "init_web3")

\* lines 60-62 with _check_contract_code, lines 114-121.
CheckContractCode(is_contract) ==
    /\ Detecting("check_code")
    /\ IF is_contract
       THEN /\ det' = [det EXCEPT !.pc = "contract_info",
                                  !.stages = Append(@, "check_contract_code")]
            /\ UNCHANGED << proc, notProc >>
       ELSE WarnAndReturn("not_a_contract", "no_code", "check_contract_code")

\* line 65 with _get_contract_info, lines 123-143: a failure is a warning.
GetContractInfo(ok) ==
    /\ Detecting("contract_info")
    /\ det' = [det EXCEPT !.pc = "check_all_dexes",
                 !.stages = Append(@, "get_contract_info"),
                 !.warnings = IF ok THEN @ ELSE Append(@, "token_info_failed")]
    /\ UNCHANGED << proc, notProc >>

\* line 68 with _check_all_dexes, lines 145-163: the loops over the DEXes
\* return, or an exception outside the per-candidate try reaches the except
\* of execute (lines 70-71).
CheckAllDexes(ok) ==
    /\ Detecting("check_all_dexes")
    /\ IF det.detected_chain \notin DexConfigKeys
       THEN WarnAndReturn("dex_config_not_found", "no_dex_config",
                          "check_all_dexes")
       ELSE /\ det' = [det EXCEPT !.pc = IF ok THEN "returned" ELSE "failed",
                                  !.stages = Append(@, "check_all_dexes")]
            /\ proc' = IF ok THEN Returns(proc) ELSE HandleError(proc)
            /\ UNCHANGED notProc

DetectOutcomes == { "not_connected", "raises", "no_code", "code" }

NextProcess ==
    \/ Dispatch
    \/ Construct
    \/ ConstructRaises
    \/ \E ok \in BOOLEAN : Execute(ok)
    \/ \E outcome \in DetectOutcomes : DetectChain(outcome)
    \/ \E connected \in BOOLEAN : InitWeb3(connected)
    \/ \E is_contract \in BOOLEAN : CheckContractCode(is_contract)
    \/ \E ok \in BOOLEAN : GetContractInfo(ok)
    \/ \E ok \in BOOLEAN : CheckAllDexes(ok)

SpecProcess == InitProcess /\ [][NextProcess]_vars

(***************************************************************************)
(* The decoding of a PairCreated log.  A str is a sequence of characters:  *)
(* the hex digits 0..15 and the letter x (CharX); bytes are a sequence of  *)
(* 0..255.                                                                 *)
(***************************************************************************)
CharX == 16
Prefix0x == << 0, CharX >>

\* bytes.hex(): two digits for each byte.
HexOfBytes(b) ==
    [i \in 1 .. 2 * Len(b) |->
        IF i % 2 = 1 THEN b[(i + 1) \div 2] \div 16 ELSE b[i \div 2] % 16]

\* HexBytes.hex(), which the comparison with EVENT_SIGNATURES relies on to
\* start with '0x'.
HexBytesHex(b) == Prefix0x \o HexOfBytes(b)

\* s[k:], s[:k] and s[-k:]
From(s, k) == SubSeq(s, k + 1, Len(s))
Upto(s, k) == SubSeq(s, 1, Min(k, Len(s)))
Last(s, k) == SubSeq(s, Max(1, Len(s) - k + 1), Len(s))

StartsWith0x(s) == Len(s) >= 2 /\ SubSeq(s, 1, 2) = Prefix0x

\* if data.startswith('0x'): data = data[2:]
StripPrefix_Never(s) == s

StripPrefix(s) == IF StartsWith0x(s) THEN From(s, 2) ELSE s

\* web3.to_checksum_address: '0x' and 40 hex digits, or it raises.
ToChecksumAddress(s) ==
    IF /\ StartsWith0x(s)
       /\ Len(s) = 42
       /\ \A i \in 3 .. 42 : s[i] \in 0 .. 15
    THEN [raised |-> FALSE, digits |-> From(s, 2)]
    ELSE [raised |-> TRUE, digits |-> << >>]

\* to_checksum_address('0x' + log['topics'][k].hex()[26:])
TopicAddress(topic) ==
    ToChecksumAddress(Prefix0x \o From(HexBytesHex(topic), 26))

\* lines 65-69: data as a str without prefix.
DataHex(data) ==
    StripPrefix(CASE data.type = "HexBytes" -> HexBytesHex(data.value)
                  [] data.type = "bytes"    -> HexOfBytes(data.value)
                  [] data.type = "str"      -> data.value)

\* to_checksum_address('0x' + data[:64][-40:])
PairAddress(data) ==
    ToChecksumAddress(Prefix0x \o Last(Upto(DataHex(data), 64), 40))

\* The inputs: 20-byte addresses, 32-byte words and the forms of data.
AddressBytes(seed) == [i \in 1 .. 20 |-> (seed * 37 + i * 11) % 256]
Word(pad, seed) == [i \in 1 .. 12 |-> pad] \o AddressBytes(seed)
ExtraWords(n) == [i \in 1 .. 32 * n |-> (i * 7 + 1) % 256]
DataForms == { "HexBytes", "bytes", "str0x", "str" }
LogData(form, payload) ==
    CASE form = "HexBytes" -> [type |-> "HexBytes", value |-> payload]
      [] form = "bytes"    -> [type |-> "bytes", value |-> payload]
      [] form = "str0x"    -> [type |-> "str",
                               value |-> Prefix0x \o HexOfBytes(payload)]
      [] form = "str"      -> [type |-> "str", value |-> HexOfBytes(payload)]

\* log['data']: the word that holds the pair and 0..MaxExtraWords further
\* words, or the first 0..31 bytes of that word alone (truncated data).
Payloads(pad, seed) ==
    { Word(pad, seed) \o ExtraWords(n) : n \in 0 .. MaxExtraWords }
        \cup { SubSeq(Word(pad, seed), 1, len) : len \in 0 .. 31 }

DecodeRoutines == { "DexAnalyzer.analyze_pair_creation",
                    "PoolAnalyzer._parse_pair_created_log" }

notDec == << scanVars, retryVars, poolVars, pair, own, proc, det, nest >>

InitDecode ==
    /\ ScanIdle /\ RetryIdle /\ PoolsIdle
    /\ PairIdle /\ OwnIdle /\ ProcIdle /\ DetIdle /\ NestIdle
    /\ \E r \in DecodeRoutines, form \in DataForms, pad \in {0, 255},
          s0 \in 1 .. MaxSeed, s1 \in 1 .. MaxSeed, sp \in 1 .. MaxSeed :
       \E payload \in Payloads(pad, sp) :
         dec = [pc |-> "decode", routine |-> r, form |-> form,
                topics |-> << Word(pad, 0), Word(pad, s0), Word(pad, s1) >>,
                payload |-> payload,
                data |-> LogData(form, payload),
                result |-> None, warned |-> FALSE]

\* The three addresses, or the exception of the first that is invalid.
Decoded(log_topics, data) ==
    LET token0 == TopicAddress(log_topics[2])
        token1 == TopicAddress(log_topics[3])
        pair_  == PairAddress(data)
    IN  [raised |-> token0.raised \/ token1.raised \/ pair_.raised,
         token0 |-> token0.digits, token1 |-> token1.digits,
         pair |-> pair_.digits]

\* DexAnalyzer.analyze_pair_creation, base.py lines 58-77 and 92-94, for a
\* log whose first topic is the PairCreated signature.
AnalyzePairCreation ==
    /\ dec.pc = "decode"
    /\ dec.routine = "DexAnalyzer.analyze_pair_creation"
    /\ LET d == Decoded(dec.topics, dec.data)
       IN  dec' = [dec EXCEPT !.pc = "done", !.result = d,
                              !.warned = d.raised]
    /\ UNCHANGED notDec

\* PoolAnalyzer._parse_pair_created_log, pool.py lines 194-226.
ParsePairCreatedLog ==
    /\ dec.pc = "decode"
    /\ dec.routine = "PoolAnalyzer._parse_pair_created_log"
    /\ LET d == Decoded(dec.topics, dec.data)
       IN  dec' = [dec EXCEPT !.pc = "done", !.result = d,
                              !.warned = d.raised]
    /\ UNCHANGED notDec

NextDecode ==
    \/ AnalyzePairCreation
    \/ ParsePairCreatedLog

SpecDecode == InitDecode /\ [][NextDecode]_vars

(***************************************************************************)
(* get_ownership_transfers, get_transfers and get_approvals: an            *)
(* async_retry wrapper whose operation is get_events, itself wrapped by    *)
(* async_retry.  A run is one execution of the body of get_events; it      *)
(* returns or raises.                                                      *)
(***************************************************************************)
Wrappers == { "get_ownership_transfers", "get_transfers", "get_approvals" }

notNest == << scanVars, retryVars, poolVars, pair, own, proc, det, dec >>

InitNested ==
    /\ ScanIdle /\ RetryIdle /\ PoolsIdle
    /\ PairIdle /\ OwnIdle /\ ProcIdle /\ DetIdle /\ DecIdle
    /\ \E w \in Wrappers, o \in 1 .. MaxRetries, i \in 1 .. MaxRetries :
         nest = [pc |-> "run", wrapper |-> w,
                 outer_retries |-> o, inner_retries |-> i,
                 outer_attempt |-> 0, inner_attempt |-> 0,
                 runs |-> 0, returned_from |-> 0, raised_from |-> 0]

\* retry.py lines 18-27, after func raised in the attempt att of a wrapper
\* with retries = n: the exception leaves the wrapper when the attempt is
\* the last one (line 23) or when the loop had run out and func was invoked
\* by line 27, outside any try; otherwise func is invoked again.
LeavesWrapper_AfterLoopOnly(att, n) == att >= n

LeavesWrapper(att, n) == att >= n \/ LastAttempt(att, n)

\* A run of the body of get_events returns: both wrappers return its list.
RunReturns ==
    /\ nest.pc = "run"
    /\ nest' = [nest EXCEPT !.pc = "returned", !.runs = @ + 1,
                            !.returned_from = nest.runs + 1]
    /\ UNCHANGED notNest

\* A run of the body raises: the wrapper of get_events runs the body again,
\* or lets the exception out to the outer wrapper, which calls get_events
\* again (a new loop of the inner wrapper) or lets the exception out.
RunRaises ==
    /\ nest.pc = "run"
    /\ IF ~LeavesWrapper(nest.inner_attempt, nest.inner_retries)
       THEN nest' = [nest EXCEPT !.runs = @ + 1, !.inner_attempt = @ + 1]
       ELSE IF ~LeavesWrapper(nest.outer_attempt, nest.outer_retries)
       THEN nest' = [nest EXCEPT !.runs = @ + 1, !.inner_attempt = 0,
                                 !.outer_attempt = @ + 1]
       ELSE nest' = [nest EXCEPT !.pc = "raised", !.runs = @ + 1,
                                 !.raised_from = nest.runs + 1]
    /\ UNCHANGED notNest

NextNested ==
    \/ RunReturns
    \/ RunRaises

SpecNested == InitNested /\ [][NextNested]_vars

(***************************************************************************)
(* Claims about get_events, checked under SpecScan.                        *)
(***************************************************************************)
ReturnedNormally == pc = "done"

\* C1: when get_events(from_block = a, to_block = b) returns, with a <= b and
\* the latest block at least b, every block of [a, b] lies in exactly one
\* successful window, no block outside it lies in any, and no getLogs call
\* held a block that a successful window already held.
C1_WindowsCoverRangeExactlyOnce ==
    (ReturnedNormally /\ to_arg # None /\ from_block <= to_arg /\ tip0 >= to_arg)
        => /\ \A b \in Blocks :
                covered[b] = IF from_block <= b /\ b <= to_arg THEN 1 ELSE 0
           /\ ~requeried

\* C2: a scan ends: a window that keeps failing with a non-rate-limit error
\* is given up (the call raises) once the retry budget of async_retry is
\* spent, so the loop never holds more such failures of one window than the
\* budget.
C2_FailuresWithinRetryBudget ==
    pc = "loop" => otherFails <= GET_EVENTS_RETRIES

\* C3: after N rate-limit errors in a row, starting from the initial batch
\* size, current_batch_size = max(initial / 10, initial / 2^N).
C3_BatchAfterNRateLimits ==
    (pc = "loop" /\ nRL # None /\ nRL < MaxCount)
        => current_batch_size =
               Max(batch_size \div FLOOR_DIVISOR, batch_size \div Pow2(nRL))

\* C4: current_batch_size never exceeds the caller's initial batch size.
C4_BatchNeverExceedsInitial ==
    pc \in {"loop", "done"} => current_batch_size <= batch_size

\* C5: current_batch_size >= max(initial / 10, 1): it never shrinks to 0.
C5_BatchNeverBelowFloor ==
    pc \in {"loop", "done"}
        => current_batch_size >= Max(batch_size \div FLOOR_DIVISOR, 1)

\* C6: whenever get_events returns normally, current_block > to_block, for
\* to_block as last resolved during the scan.
C6_ReturnsPastToBlock ==
    ReturnedNormally => current_block > to_block

(***************************************************************************)
(* Claims about async_retry, checked under SpecRetry.                      *)
(***************************************************************************)
\* C7: with retries = R >= 1, one call of the wrapper invokes the operation
\* at most R times; every invocation but the last one raised, so the wrapper
\* returns the result of the first invocation that succeeds and invokes
\* nothing after it; when it raises, all R invocations raised and the
\* exception is the R-th invocation's.
C7_RetryAtMostRTimes ==
    retries >= 1 =>
        /\ Calls <= retries
        /\ \A k \in 1 .. Calls - 1 : outcomes[k] = "err"
        /\ rpc = "returned" =>
               returned_from = Calls /\ outcomes[Calls] = "ok"
        /\ rpc = "raised" =>
               /\ Calls = retries
               /\ raised_from = retries
               /\ outcomes[retries] = "err"
        /\ rpc = "loop" => (Calls < retries /\ r_attempt = Calls)

C7_Witness ==
    rpc = "raised" /\ retries = GET_EVENTS_RETRIES /\ Calls = retries

RECURSIVE Power(_, _)
Power(b, n) == IF n = 0 THEN 1 ELSE b * Power(b, n - 1)

\* C25: with retries = R >= 1 the wrapper sleeps only between attempts, with
\* multiplicative backoff: the k-th sleep, before the k-th re-invocation
\* (k = 1 .. R-1), lasts delay * backoff^(k-1); there is one sleep after
\* each failed invocation but the R-th, and none after an invocation that
\* succeeded or after the final failed one.
C25_SleepsBetweenAttemptsWithBackoff ==
    retries >= 1 =>
        /\ \A k \in 1 .. Len(sleeps) : sleeps[k] = delay * Power(backoff, k - 1)
        /\ Len(sleeps) <= retries - 1
        /\ rpc = "loop" => Len(sleeps) = Calls
        /\ rpc = "returned" => Len(sleeps) = Calls - 1
        /\ rpc = "raised" => Len(sleeps) = retries - 1

C25_Witness ==
    /\ rpc = "returned"
    /\ retries = MaxRetries
    /\ backoff > 1
    /\ Calls = retries
    /\ Len(sleeps) = retries - 1
    /\ sleeps[Len(sleeps)] = delay * Power(backoff, retries - 2)

(***************************************************************************)
(* Claims about the pool-resolution routines, checked under SpecPools.     *)
(***************************************************************************)
PoolsDone == p_pc = "done"

\* C8: in check_dex_pools a factory call that fails is skipped alone: every
\* other quote / fee combination of that DEX and every other DEX is still
\* queried, so a finished run has made every factory call of every DEX.
C8_EveryCandidateQueried ==
    (PoolsDone /\ routine = "check_dex_pools")
        => \A d \in DexIds : queried[d] = NumCandidates(d)

\* C9: in check_dex_pools, when every factory call of DEX A raises and DEX B,
\* before or after A, answers its factory calls and has a readable non-zero
\* pair, the finished run has reported B's pair and returns True.
C9_OtherDexStillDiscovered ==
    (PoolsDone /\ routine = "check_dex_pools" /\ failDex # 0 /\ goodDex # 0)
        => (found_pools /\ goodReported)

C9_Witness ==
    /\ PoolsDone /\ routine = "check_dex_pools"
    /\ failDex # 0 /\ goodDex > failDex
    /\ queried[failDex] > 0
    /\ found_pools /\ goodReported

\* C10: in every routine, a factory call that answers the zero address is
\* followed by no read and no price computation, adds no record, logs no
\* warning, and the loops go on with the next candidate.
C10_ZeroAddressIsNoPool ==
    (ev.dex # 0 /\ ~ev.raised /\ ev.result = ZERO_ADDRESS)
        => /\ ev.reads = << >>
           /\ ~ev.priced
           /\ ~ev.reported
           /\ ~ev.warned
           /\ Here = NextCandidate(ev.dex, ev.quote, ev.fee)

C10_Witness ==
    /\ ev.dex # 0 /\ ~ev.raised /\ ev.result = ZERO_ADDRESS
    /\ Version(ev.dex) = 3
    /\ routine = "chain_detector"
    /\ p_pc = "check"

\* C11: in check_dex_pools and in ChainDetector._check_v3_pools a getPool
\* call that answers a non-zero pool is followed by the pool's liquidity()
\* read, and unless a read fails the pool's slot0() is read and its price is
\* computed before the pool is reported.
C11_V3PoolIsReadAndPriced ==
    ( /\ routine \in {"check_dex_pools", "chain_detector"}
      /\ ev.dex # 0 /\ Version(ev.dex) = 3
      /\ ~ev.raised /\ ev.result # ZERO_ADDRESS )
        => /\ ev.reads # << >>
           /\ ev.reads[1] = "liquidity"
           /\ ev.reported =>
                  /\ Len(ev.reads) >= 2 /\ ev.reads[2] = "slot0"
                  /\ ev.priced

(***************************************************************************)
(* Claims about the price computations, checked under SpecPrice.           *)
(***************************************************************************)
\* C12: every V2 pair-info routine reports a pair whose target-token
\* reserve is 0 as having no liquidity; the division by zero is not
\* surfaced as the generic failure to get the pair's information.
C12_ZeroReserveIsNoLiquidity ==
    (pair.pc = "done" /\ pair.routine \in PairRoutines /\ token_reserve = 0)
        => (pair.result.outcome = "no_liquidity"
            /\ pair.result.warning = "no_liquidity")

\* Both calls of a V2 pair-info routine, before and after the reserves were
\* scaled by k, computed a price.
PricedTwice ==
    /\ pair.pc = "done" /\ pair.routine \in PairRoutines /\ pair.k > 1
    /\ pair.prev.outcome = "info" /\ pair.result.outcome = "info"

\* C18 as stated: the V2 price computed from the reserves scaled by k equals
\* the price computed from the reserves themselves.
C18_PriceScaleInvariant ==
    PricedTwice => pair.result.price = pair.prev.price

\* C18, amended: the two prices are equal up to the rounding of the float
\* divisions: they differ by at most 8 * 2^-MantissaBits of the smaller one.
C18_PriceScaleInvariantUpToRounding ==
    PricedTwice =>
        LET p1 == pair.prev.price
            p2 == pair.result.price
            u  == Pow2(MantissaBits)
        IN  /\ FloatLeq(u, p1, u + 8, p2)
            /\ FloatLeq(u, p2, u + 8, p1)

C18_Witness ==
    /\ PricedTwice
    /\ pair.result.price # pair.prev.price
    /\ pair.result.price # ZeroFloat

\* sqrt_price_x96 = 2 ** 96.
IsOneQ96(sqrt_price_x96) ==
    sqrt_price_x96.m * Pow2(sqrt_price_x96.e - (Q96 - 1)) = 2

\* C19: the V3 price computed from sqrtPriceX96 = 2^96 with equal token and
\* quote decimals is exactly 1, whatever the decimals are.
C19_UnitSqrtPriceIsOne ==
    ( /\ pair.pc = "done" /\ pair.routine \in PoolRoutines
      /\ pair.result.outcome = "info"
      /\ IsOneQ96(pair.sqrt_price_x96)
      /\ pair.token_decimals = pair.quote_decimals )
        => pair.result.price = OneFloat

C19_Witness ==
    /\ pair.pc = "done" /\ pair.routine = "ChainDetector._get_v3_pool_info"
    /\ pair.result.outcome = "info"
    /\ pair.sqrt_price_x96 = [m |-> 1, e |-> Q96]
    /\ pair.token_decimals = MaxDecimals /\ pair.quote_decimals = MaxDecimals
    /\ FloatOfInt(Pow10(MaxDecimals)).m * Pow2(FloatOfInt(Pow10(MaxDecimals)).e)
           # Pow10(MaxDecimals)
    /\ pair.result.price = OneFloat

(***************************************************************************)
(* Claims about check_ownership, checked under SpecOwnership.              *)
(***************************************************************************)
Returned == own.pc = "returned"

\* C13: the transfer_history that check_ownership returns is sorted by
\* block_number ascending, whatever the order the events were delivered
\* in, and holds exactly one entry for every delivered event.
C13_HistorySortedPermutation ==
    Returned =>
        LET h == own.result.transfer_history
            d == own.delivered
        IN  /\ \A i, j \in 1 .. Len(h) :
                   i < j => h[i].block_number <= h[j].block_number
            /\ Len(h) = Len(d)
            /\ \A i \in 1 .. Len(d) :
                   Cardinality({ j \in 1 .. Len(h) :
                       /\ h[j].tx_hash = d[i].transactionHash
                       /\ h[j].block_number = d[i].blockNumber
                       /\ h[j].new_owner = d[i].newOwner }) = 1

C13_Witness ==
    /\ Returned
    /\ Len(own.delivered) = MaxEvents
    /\ own.delivered[1].blockNumber > own.delivered[2].blockNumber
    /\ own.delivered[2].blockNumber < own.delivered[3].blockNumber

\* C14: when check_ownership returns a non-empty transfer_history, the
\* new_owner of its last entry is the returned current_owner, or the result
\* is marked as stale.
C14_LastEntryIsCurrentOwner ==
    (Returned /\ own.result.transfer_history # << >>) =>
        LET h == own.result.transfer_history
        IN  \/ h[Len(h)].new_owner = own.result.current_owner
            \/ "stale" \in DOMAIN own.result

\* C15: when the fetch of the transaction or of the block of an event
\* fails, check_ownership raises: it returns no history.
C15_FetchFailureRaises ==
    /\ own.fetch_failed => own.pc = "raised"
    /\ ~Returned => own.result = None

C15_Witness ==
    /\ own.fetch_failed
    /\ own.pc = "raised"
    /\ Len(own.transfer_details) >= 1

(***************************************************************************)
(* Claims about the process and its tasks, checked under SpecProcess.      *)
(***************************************************************************)
\* C16: a fatal failure of the execute of one analysis task ends that task
\* only: the process is not terminated by it, and the tasks that follow it
\* in the entry point are still executed before the process ends.
C16_FailedTaskEndsAlone ==
    proc.failed # 0 =>
        /\ proc.exit_cause # "handle_error"
        /\ proc.pc = "exited" => Len(proc.executed) = Len(proc.tasks)

\* C17: when no configured chain holds code at the address, or the detected
\* chain has no DEX configuration, ChainDetector.execute ends with an error
\* outcome that carries the reason, not with a normal return, and no later
\* stage is executed.
C17_ConfigFailureIsTerminal ==
    (det.pc # "idle" /\ det.cause \in {"no_chain", "no_dex_config"}) =>
        /\ det.pc = "failed"
        /\ det.warnings # << >>
        /\ det.cause = "no_chain" => det.stages = << "detect_chain" >>

(***************************************************************************)
(* Claims about the decoding of a PairCreated log, under SpecDecode.       *)
(***************************************************************************)
\* C20: the decoding returns as token0 and token1 the low 20 bytes of
\* topics[1] and topics[2], and as pair the last 20 bytes of the first
\* 32-byte word of data, whether data came as bytes or as a hex string with
\* or without the prefix 0x, and however many words follow the first.
C20_DecodesLow20Bytes ==
    (dec.pc = "done" /\ Len(dec.payload) >= 32) =>
        /\ ~dec.result.raised
        /\ dec.result.token0 = HexOfBytes(SubSeq(dec.topics[2], 13, 32))
        /\ dec.result.token1 = HexOfBytes(SubSeq(dec.topics[3], 13, 32))
        /\ dec.result.pair = HexOfBytes(SubSeq(dec.payload, 13, 32))

C20_Witness ==
    /\ dec.pc = "done"
    /\ dec.form = "str0x"
    /\ Len(dec.payload) = 32 * (1 + MaxExtraWords)
    /\ dec.topics[2][1] # 0
    /\ dec.topics[2] # dec.topics[3]
    /\ ~dec.result.raised
    /\ Len(dec.result.pair) = 40

\* C24: for a PairCreated log whose data is shorter than one 32-byte word
\* (fewer than 64 hex characters without the prefix) the decoding fails
\* structurally, with a warning and no pair, for every such length: no pair
\* address is built from truncated data.
C24_ShortDataIsRejected ==
    (dec.pc = "done" /\ Len(dec.payload) < 32) =>
        /\ dec.result.raised
        /\ dec.warned
        /\ dec.result.pair = << >>

(***************************************************************************)
(* Claims about the result list of get_events, under SpecResults.          *)
(***************************************************************************)
\* C27: the list that get_events returns holds each matching log at most
\* once, whatever provider errors and process_log failures happened: a
\* window that failed after some of its logs were decoded and is retried
\* does not contribute those logs a second time.
C27_EachLogAtMostOnce ==
    pc = "done" => \A b \in Blocks : results[b] <= 1

(***************************************************************************)
(* Claims about the wrappers of get_events, under SpecNested.              *)
(***************************************************************************)
\* The decorators as the source writes them: retries = 3 around the wrapper
\* and retries = 3 around get_events.
AsDecorated ==
    /\ nest.pc # "idle"
    /\ nest.outer_retries = WRAPPER_RETRIES
    /\ nest.inner_retries = GET_EVENTS_RETRIES

\* C28: one call of get_ownership_transfers, get_transfers or get_approvals
\* runs the body of get_events at most 9 times; when every run raises it
\* runs it exactly 9 times and the exception that leaves the call is the
\* 9th run's; a run that returns ends the call with that run's result.
C28_NestedRetryRunsBodyAtMostNineTimes ==
    AsDecorated =>
        /\ nest.runs <= 9
        /\ nest.pc = "run" => nest.runs < 9
        /\ nest.pc = "raised" => (nest.runs = 9 /\ nest.raised_from = 9)
        /\ nest.pc = "returned" => nest.returned_from = nest.runs

C28_Witness ==
    /\ AsDecorated
    /\ nest.pc = "raised"
    /\ nest.runs = 9
    /\ nest.outer_attempt = WRAPPER_RETRIES - 1
    /\ nest.inner_attempt = GET_EVENTS_RETRIES - 1

(***************************************************************************)
(* Claims about the reserves of a V2 pair, under SpecPrice.                *)
(***************************************************************************)
\* The routine reported the two reserves of the pair.
ReservesReported ==
    /\ pair.pc = "done"
    /\ pair.routine \in ReserveRoutines
    /\ pair.result.outcome \in {"info", "no_liquidity"}

\* C26: in the V2 pair-info routines the reported reserve of the target
\* token is reserves[0] exactly when token0() is the target token's address,
\* whatever the case of the hex digits of the two strings, and reserves[1]
\* otherwise; the reported quote reserve is the other slot, so the two
\* reported reserves are always the two distinct slots.
C26_ReserveSlotsFollowToken0 ==
    ReservesReported =>
        LET same  == pair.token0.id = pair.contract_address.id
            tslot == IF same THEN 1 ELSE 2
        IN  /\ pair.result.token = pair.reserves[tslot]
            /\ pair.result.quote = pair.reserves[3 - tslot]

\* token0() is the target token written in another case, and the two
\* reserves differ.
C26_Witness ==
    /\ ReservesReported
    /\ pair.routine = "EventHandler.quick_check_contract"
    /\ pair.token0.id = pair.contract_address.id
    /\ pair.token0.casing # pair.contract_address.casing
    /\ pair.reserves[1] # pair.reserves[2]
    /\ pair.result.token = pair.reserves[1]

(***************************************************************************)
(* Claims about the cursor and the windows of get_events, under SpecScan.  *)
(***************************************************************************)
\* The step issues a getLogs call (line 236) after the provider answered
\* latest as its block number (line 218); every such step leaves latest in
\* tip.
GetLogsStep(latest) ==
    \/ IterSuccess(latest)
    \/ \E kind \in ErrorKinds : IterGetLogsFails(latest, kind)

\* The step is an iteration that ends in the except branch (tip' is the
\* block number the provider answered in the step, if it answered).
FailedStep ==
    \E kind \in ErrorKinds :
        IterLatestFails(kind) \/ IterGetLogsFails(tip', kind)

\* C21: the cursor current_block never decreases; an iteration that fails,
\* with a rate-limit error or any other, leaves it unchanged, so the next
\* getLogs call has the fromBlock of the failed one; it changes only in an
\* iteration whose window succeeded, to the end of that window + 1.
\* (Each implication A => B is written B \/ ~A.)
C21_CursorMonotonicAndKeptOnFailure ==
    [][ /\ current_block' >= current_block
        /\ current_block' = current_block \/ ~FailedStep
        /\ \/ current_block' = current_block
           \/ /\ IterSuccess(tip')
              /\ current_block' =
                     Min(Min(current_block + current_batch_size - 1,
                             to_block), tip') + 1
      ]_vars

C21_Witness ==
    /\ pc = "done"
    /\ otherFails > 0
    /\ current_block > from_block
    /\ \E b \in Blocks : covered[b] > 0

\* The window that get_logs is called with when the provider answered
\* latest: fromBlock is the cursor, toBlock the clipped end.
WindowWellFormed(latest) ==
    LET fromBlock == current_block
        toBlock   == EndBlock(latest)
    IN  /\ fromBlock <= toBlock
        /\ toBlock <= to_block
        /\ toBlock <= to_block'
        /\ toBlock <= latest
        /\ toBlock - fromBlock + 1 <= current_batch_size

\* C22: every getLogs call has a well-formed window: fromBlock is the cursor
\* current_block and fromBlock <= toBlock; toBlock is at most the scan's
\* to_block and at most the latest block number the provider answered in the
\* same iteration; the window holds at most current_batch_size blocks.
\* (GetLogsStep => WindowWellFormed, written B \/ ~A.)
C22_WindowWellFormed ==
    [][ WindowWellFormed(tip') \/ ~GetLogsStep(tip') ]_vars

\* A window that was clipped to the chain tip was sent and succeeded.
C22_Witness ==
    /\ pc = "done"
    /\ to_arg # None
    /\ to_block < to_arg
    /\ to_block \in Blocks
    /\ covered[to_block] > 0

\* C29: check_dex_pools returns True exactly when at least one getPair /
\* getPool call answered a non-zero address, whether or not the pair could
\* then be read; it returns False when every factory call answered the
\* zero address or raised (and when the chain is unknown and no call is
\* made).
C29_FoundIffSomeNonZeroAnswer ==
    (PoolsDone /\ routine = "check_dex_pools") => (found_pools <=> nonZero)

\* The only non-zero answer of the run was for a pair whose read failed.
C29_Witness ==
    /\ PoolsDone /\ routine = "check_dex_pools"
    /\ found_pools
    /\ nonZero
    /\ ev.result # ZERO_ADDRESS /\ ~ev.raised /\ ~ev.reported

(***************************************************************************)
(* Claims about the pool checks of ChainDetector, under SpecPools.         *)
(***************************************************************************)
\* The last candidate failed: its factory call raised, or a read or the
\* price of its pair raised inside _get_v2_pair_info / _get_v3_pool_info.
CandidateFailed ==
    /\ ev # NoEvent
    /\ \/ ev.raised
       \/ (PairExists(ev.result) /\ ~ev.reported)

\* C23: in ChainDetector._check_v2_pools / _check_v3_pools a failure while
\* querying or reading one quote asset (V2) or one quote / fee combination
\* (V3) is logged as a warning and skipped: the loop stands at the next
\* combination, so that a finished run has queried every combination of
\* every DEX.
C23_CandidateFailureIsSkippedAlone ==
    routine = "chain_detector" =>
        /\ CandidateFailed =>
               /\ ev.warned
               /\ Here = NextCandidate(ev.dex, ev.quote, ev.fee)
        /\ PoolsDone => \A d \in DexIds : queried[d] = NumCandidates(d)

\* The getPool call of a V3 DEX raised for a fee tier that is not the last
\* of its quote asset, and the loop stands at the next fee tier.
C23_Witness ==
    /\ routine = "chain_detector"
    /\ ev.raised
    /\ ev.warned
    /\ Version(ev.dex) = 3
    /\ ev.fee < Len(FEE_TIERS)
    /\ Here = Position("check", ev.dex, ev.quote, ev.fee + 1)

(***************************************************************************)
(* Claims about ChainDetector._detect_chain, under SpecProcess.            *)
(***************************************************************************)
\* _detect_chain has returned.
Detected == det.pc \notin {"idle", "detect"}

\* C30: _detect_chain probes the chains in the order of the registry (ETH,
\* BSC, POLYGON) and returns the first chain whose node is connected and
\* answers non-empty code; a node that is not connected or a probe that
\* raises skips that chain alone; no chain is probed after the first match;
\* None is returned exactly when no chain answered non-empty code.
C30_FirstChainWithCodeInRegistryOrder ==
    det.pc # "idle" =>
        LET n == Len(det.probes) IN
        /\ n <= Len(ChainKeys)
        /\ \A k \in 1 .. n : det.probes[k].chain = ChainKeys[k]
        /\ \A k \in 1 .. n - 1 : det.probes[k].outcome # "code"
        /\ det.pc = "detect" =>
               (det.chain_index = n + 1 /\ det.detected_chain = "none")
        /\ Detected =>
               /\ n >= 1
               /\ det.probes[n].outcome = "code" =>
                      det.detected_chain = ChainKeys[n]
               /\ det.probes[n].outcome # "code" =>
                      /\ n = Len(ChainKeys)
                      /\ det.detected_chain = "none"
                      /\ det.cause = "no_chain"

\* ETH is not connected, the probe of BSC answers code: BSC is returned and
\* POLYGON is not probed.
C30_Witness ==
    /\ Detected
    /\ Len(det.probes) = 2
    /\ det.probes[1].outcome = "not_connected"
    /\ det.probes[2].outcome = "code"
    /\ det.detected_chain = "BSC"

====
